---- MODULE Spec2Model ----
(***************************************************************************)
(* Training lifecycle of the browser image classifier.                     *)
(*                                                                         *)
(*   src/js/app.js          handleStartTraining, handlePauseTraining,      *)
(*                          handleStopTraining and the callbacks they pass *)
(*   src/unnamed/part_000   ModelManager (train, pauseTraining,            *)
(*                          resumeTraining, stopTraining, createModel,     *)
(*                          prepareTrainingData) and StorageManager        *)
(*                          (getDataSummary, getImagesByClass)             *)
(*                                                                         *)
(* JavaScript runs one task at a time: the code between two awaits is one  *)
(* atomic step.  Each action below is one such step of one invocation of   *)
(* handleStartTraining (a "handler" h \in Handlers), or one whole          *)
(* synchronous click handler.  The ML runtime (fit, createModel), the      *)
(* image decoder and the presentation-layer callbacks are the environment: *)
(* whether they return or throw is chosen nondeterministically.            *)
(***************************************************************************)
EXTENDS Integers, Sequences, FiniteSets, TLC

\* ------------------------------------------------------------------ bounds
\* The epochs input is drawn from 1..MaxEpochs.
MaxEpochs == 2
\* Start clicks that get past the guard of handleStartTraining, in total.
MaxStarts == 2
\* Concurrent invocations of handleStartTraining that are followed.
Handlers == {1, 2}
\* Files in one drop on the upload zone, and drops in total.
MaxFiles == 2
MaxDrops == 2
\* Samples handed to train(), at most.
MaxSamples == 45
\* Classes added by handleAddClass, in total, and the length of a class name.
MaxAdds == 2
MaxNameLen == 1
\* Class ids of the store, and the image counts a class starts with.
ClassIds == {1, 2}
\* The ids of the classes of the store and of the classes added to it.
AllClassIds == 1..(Cardinality(ClassIds) + MaxAdds)
ImageCounts == {0, 4}

VARIABLES
    modelManager,   \* the ModelManager singleton (part_000:247-256)
    state,          \* the application state (app.js:23-33)
    db,             \* the IndexedDB stores: classes, images, the saved model and its info
    h,              \* per handler: position and locals of handleStartTraining/train
    log,            \* per handler: what its session has done so far (history)
    starts,         \* start clicks accepted so far (bounds the run)
    tasks           \* the other handlers in flight: test, save, load, upload, delete

vars == <<modelManager, state, db, h, log, starts, tasks>>

\* ----------------------------------------------------------------- helpers
RECURSIVE SumOver(_, _)
SumOver(f, S) ==
    IF S = {} THEN 0
    ELSE LET c == CHOOSE x \in S : TRUE IN f[c] + SumOver(f, S \ {c})

RECURSIVE SortedSeq(_)
\* store.getAll() returns records in key order
SortedSeq(S) ==
    IF S = {} THEN <<>>
    ELSE LET m == CHOOSE x \in S : \A y \in S : x <= y
         IN <<m>> \o SortedSeq(S \ {m})

NoError == "none"

\* One entry of a session's trace: a call the session made or received.
Entry(op, epoch, arg) == [op |-> op, epoch |-> epoch, arg |-> arg]

EmptyLog ==
    [started |-> FALSE,    \* train() has been called
     epochs  |-> 0,        \* params.epochs of that call
     request |-> <<>>,     \* classesWithImages handed to prepareTrainingData
     trace   |-> <<>>]     \* runtime calls and their throws, callbacks, dispose
                           \* calls and the first stopTraining() of the
                           \* session, in order

IdleHandler ==
    [pc |-> "idle", classes |-> {}, idx |-> 0, cwi |-> <<>>, epochs |-> 0, epoch |-> 0]

\* A model handle: who built it (a start invocation, or loadModel) and the
\* number of units of its output layer.  NoModel is null.
NoModel == [by |-> 0, units |-> 0]
LoadedBy == Cardinality(Handlers) + 1

\* The record of the models store; NoInfo is the store without it.
NoInfo == [saved |-> FALSE, classLabels |-> <<>>]

\* No result of predict yet.
NoPredictions == [done |-> FALSE, trained |-> {}, entries |-> <<>>]

\* Class names are sequences of letters; the empty name is the empty input.
Letters == {"a", "A", "b"}
Names == UNION {[1..n -> Letters] : n \in 1..MaxNameLen}
NoName == <<>>
\* The names of the classes the store holds when the page is loaded.
InitialNames == <<<<"a">>, <<"b">>>>
\* String.prototype.toLowerCase, letter by letter.
LowerCaseLetter(c) == IF c = "A" THEN "a" ELSE c
ToLowerCase(name) == [i \in DOMAIN name |-> LowerCaseLetter(name[i])]
\* Invocations of handleAddClass that can be in flight together.
AddRequests == {1, 2}
\* A map from class ids without the entry of id.
Without(f, id) == [c \in DOMAIN f \ {id} |-> f[c]]
\* A class card: the text of its name span, and whether the span the card's
\* edit button holds has been replaced in the document (app.js:326-330).
Card(name) == [text |-> name, detached |-> FALSE]

\* The other handlers, none of them running.
IdleTasks ==
    [test   |-> [pc |-> "idle", result |-> NoPredictions, error |-> NoError],
     save   |-> [pc |-> "idle", model |-> NoModel, trained |-> <<>>, info |-> NoInfo],
     load   |-> [pc |-> "idle", info |-> NoInfo],
     upload |-> [pc |-> "idle", classId |-> 0, left |-> 0, drops |-> 0],
     del    |-> [pc |-> "idle", id |-> 0, images |-> 0, done |-> {}],
     fit    |-> [pc |-> "idle", numSamples |-> 0, batchSize |-> 0,
                 totalBatches |-> 0, batch |-> -1],
     add    |-> [t \in AddRequests |-> [pc |-> "idle", name |-> NoName]],
     edit   |-> [pc |-> "idle", classId |-> 0, currentName |-> NoName,
                 newName |-> NoName, failed |-> FALSE],
     clear  |-> [pc |-> "idle", dropped |-> FALSE],
     call   |-> [op |-> "none", error |-> NoError, dropped |-> FALSE]]

\* A handler whose train() call has started and not yet returned or thrown.
InTrain(p) == h[p].pc \in {"createModel", "fit", "paused"}
\* A handler inside the epoch loop of train().
InEpochLoop(p) == h[p].pc \in {"fit", "paused"}
\* The entries of a session's trace.
IsFit(e) == e.op = "fit"
IsEvent(e) == e.op = "onEpochEnd"
IsOutcome(e) == e.op \in {"onTrainingEnd", "onTrainingError"}
IsDispose(e) == e.op = "dispose"
Trace(p) == log[p].trace
\* stopTraining() has run during the session.
Stopped(p) == \E i \in DOMAIN Trace(p) : Trace(p)[i].op = "stop"
\* The epoch indices of the session's ProgressEvents, in order.
Events(p) == LET ev == SelectSeq(Trace(p), IsEvent)
             IN  [i \in DOMAIN ev |-> ev[i].epoch]
\* The session's terminal outcomes, in order.
Outcomes(p) == SelectSeq(Trace(p), IsOutcome)
\* How often the session's tensors were released.
Released(p) == Len(SelectSeq(Trace(p), IsDispose))
\* A session that has reached its end.
Ended(p) == log[p].started /\ h[p].pc = "idle"

\* -------------------------------------------------------------------- Init
InitWith(savedModel, savedInfo) ==
    /\ modelManager = [model |-> NoModel, classLabels |-> <<>>, isTraining |-> FALSE,
                       isPaused |-> FALSE, shouldStop |-> FALSE, currentEpoch |-> 0,
                       trainingCallbacks |-> 0]
    /\ \E cs \in SUBSET ClassIds : \E im \in [ClassIds -> ImageCounts] :
          /\ \A c \in ClassIds \ cs : im[c] = 0
          /\ db = [classes |-> cs, images |-> im, model |-> savedModel,
                   modelInfo |-> savedInfo,
                   names |-> [c \in cs |-> InitialNames[c]],
                   nextId |-> Cardinality(ClassIds) + 1]
          /\ state = [classes |-> SortedSeq(cs), isTraining |-> FALSE,
                      isPaused |-> FALSE, timerInterval |-> FALSE,
                      liveTimers |-> 0,
                      startDisabled |-> ~(Cardinality(cs) >= 2),
                      names |-> [c \in cs |-> InitialNames[c]],
                      cards |-> [c \in cs |-> Card(InitialNames[c])],
                      selector |-> [c \in cs |-> InitialNames[c]]]
    /\ h = [p \in Handlers |-> IdleHandler]
    /\ log = [p \in Handlers |-> EmptyLog]
    /\ starts = 0
    /\ tasks = IdleTasks

\* The page is loaded on a store that holds no saved model.
Init == InitWith(NoModel, NoInfo)

\* ------------------------------------------------------- timer (app.js)
\* startTimer, app.js:654-663: the interval held in state.timerInterval, if
\* any, is cleared and a new one is set.  liveTimers counts the intervals
\* that are set and not cleared.
StartTimer(st) ==
    [st EXCEPT !.liveTimers = IF st.timerInterval THEN @ ELSE @ + 1,
               !.timerInterval = TRUE]

\* stopTimer, app.js:665-670.
StopTimer(st) ==
    IF st.timerInterval
    THEN [st EXCEPT !.liveTimers = @ - 1, !.timerInterval = FALSE]
    ELSE st

\* updateTrainingButtonState, app.js:790-793: the disabled attribute of the
\* start control.
UpdateTrainingButtonState(st) ==
    LET canTrain == Len(st.classes) >= 2
    IN  [st EXCEPT !.startDisabled = ~canTrain \/ st.isTraining]

\* updateTrainingUI(status), app.js:624-645.
UpdateTrainingUI(st, status) ==
    IF status = "training"
    THEN [st EXCEPT !.startDisabled = TRUE]
    ELSE UpdateTrainingButtonState([st EXCEPT !.startDisabled = FALSE])

\* ---------------------------------------------------- callbacks (app.js)
\* onTrainingEnd(completed), app.js:560-581: the tensors are disposed and the
\* outcome is shown.  state.isTraining and the timer are handled in Leave.
OnTrainingEnd(lg, completed) ==
    [lg EXCEPT !.trace = @ \o <<Entry("onTrainingEnd", -1,
                                       IF completed THEN "Completed" ELSE "Stopped"),
                                 Entry("dispose", -1, "")>>]

\* onTrainingError(error), app.js:582-590.
OnTrainingError(lg, error) ==
    [lg EXCEPT !.trace = @ \o <<Entry("onTrainingError", -1, error),
                                 Entry("dispose", -1, "")>>]

\* Mutant of OnEpochEnd: the ProgressEvent is dropped while the pause flag is set.
OnEpochEndUnlessPaused(lg, epoch) ==
    IF modelManager.isPaused THEN lg
    ELSE [lg EXCEPT !.trace = Append(@, Entry("onEpochEnd", epoch, ""))]

\* onEpochEnd(epoch, totalEpochs, logs), app.js:544-556.
OnEpochEnd(lg, epoch) ==
    [lg EXCEPT !.trace = Append(@, Entry("onEpochEnd", epoch, ""))]

\* --------------------------------------------- train(): the ways out of it
\* Control leaves train() and handleStartTraining.  Every way out has run
\* state.isTraining = false (onTrainingEnd, onTrainingError or the catch of
\* handleStartTraining) and stopTimer() (both terminal callbacks).
Leave(p, mm, lg) ==
    /\ h' = [h EXCEPT ![p] = IdleHandler]
    /\ modelManager' = mm
    /\ state' = UpdateTrainingUI(StopTimer([state EXCEPT !.isTraining = FALSE]), "idle")
    /\ log' = [log EXCEPT ![p] = lg]
    /\ UNCHANGED <<db, starts, tasks>>

\* The catch block of train(), part_000:512-518, then the catch block of
\* handleStartTraining, app.js:592-597, which the rethrown error reaches.
\* Mutant of TrainCatch: the catch block swallows the error without reporting it.
TrainCatchSilent(p, mm, lg, error) ==
    Leave(p, [mm EXCEPT !.isTraining = FALSE], lg)

\* Should onTrainingError itself raise once it has disposed the tensors
\* (showToast, updateTrainingUI), the handler's catch is reached all the same.
TrainCatch(p, mm, lg, error) ==
    Leave(p, [mm EXCEPT !.isTraining = FALSE], OnTrainingError(lg, error))

\* Loop exit, part_000:506-511.  onTrainingEnd is called inside the try block:
\* if it raises (after the dispose calls: the DOM updates of app.js:566-580),
\* control enters the catch block of train().
TrainEnd(p, mm, lg) ==
    LET mm1 == [mm EXCEPT !.isTraining = FALSE]
        lg1 == OnTrainingEnd(lg, ~mm.shouldStop)
    IN  \/ Leave(p, mm1, lg1)
        \/ TrainCatch(p, mm1, lg1, "CallbackError")

\* ------------------------------------------------- train(): the epoch loop
\* Mutant of ForCond: the loop bound is off by one.
ForCondInclusive(mm, epoch, epochs) == epoch <= epochs /\ ~mm.shouldStop

\* for (...; epoch < epochs && !this.shouldStop; ...), part_000:468
ForCond(mm, epoch, epochs) == epoch < epochs /\ ~mm.shouldStop

\* Mutant of WhilePaused: the pause wait is skipped.
WhilePausedSkipped(mm) == FALSE

\* Mutant of WhilePaused: the pause wait does not look at the cancellation flag.
WhilePausedIgnoresStop(mm) == mm.isPaused

\* while (this.isPaused && !this.shouldStop), part_000:472
WhilePaused(mm) == mm.isPaused /\ ~mm.shouldStop

\* if (this.shouldStop) break, part_000:476
BreakOnStop(mm) == mm.shouldStop

\* await new Promise(resolve => setTimeout(resolve, 100)), part_000:473
Park(p, mm, lg, epoch) ==
    /\ h' = [h EXCEPT ![p].pc = "paused", ![p].epoch = epoch]
    /\ modelManager' = mm
    /\ log' = [log EXCEPT ![p] = lg]
    /\ UNCHANGED <<state, db, starts, tasks>>

\* await this.model.fit(xs, ys, ...), part_000:479
IssueFit(p, mm, lg, epoch) ==
    /\ h' = [h EXCEPT ![p].pc = "fit", ![p].epoch = epoch]
    /\ modelManager' = mm
    /\ log' = [log EXCEPT ![p] = [lg EXCEPT !.trace = Append(@, Entry("fit", epoch, ""))]]
    /\ UNCHANGED <<state, db, starts, tasks>>

\* The body of the loop from the pause wait on, part_000:472-479.
AfterWait(p, mm, lg, epoch) ==
    IF WhilePaused(mm) THEN Park(p, mm, lg, epoch)
    ELSE IF BreakOnStop(mm) THEN TrainEnd(p, mm, lg)
    ELSE IssueFit(p, mm, lg, epoch)

\* The head of the loop at index epoch, part_000:468-469.
LoopHead(p, mm, lg, epoch) ==
    IF ForCond(mm, epoch, h[p].epochs)
    THEN AfterWait(p, [mm EXCEPT !.currentEpoch = epoch], lg, epoch)
    ELSE TrainEnd(p, mm, lg)

\* Mutant of TrainReset: the cancellation flag of the previous session is kept.
TrainResetKeepsStop(mm, p) ==
    [mm EXCEPT !.isTraining = TRUE, !.isPaused = FALSE,
               !.currentEpoch = 0, !.trainingCallbacks = p]

\* The first statements of train(), part_000:452-456.
TrainReset(mm, p) ==
    [mm EXCEPT !.isTraining = TRUE, !.isPaused = FALSE, !.shouldStop = FALSE,
               !.currentEpoch = 0, !.trainingCallbacks = p]

\* ------------------------------------------------- storage (part_000)
\* getDataSummary, part_000:956-976, over the classes read by its first await
\* and the images read by its second.
GetDataSummary(classes, images) ==
    [numClasses  |-> Cardinality(classes),
     totalImages |-> SumOver(images, DOMAIN images),
     classCounts |-> [c \in classes |-> images[c]]]

\* The checks of handleStartTraining on the summary, app.js:496-504.
Validate(summary) == summary.numClasses >= 2 /\ summary.totalImages >= 4

\* Object.entries(classesWithImages) visits integer keys in ascending order;
\* prepareTrainingData gives each class the next index, part_000:406-417.
ClassLabelsOf(cwi) ==
    LET ids == SortedSeq(DOMAIN cwi)
    IN  [i \in 1..Len(ids) |-> [id |-> ids[i], index |-> i - 1]]

NumImages(cwi) == SumOver(cwi, DOMAIN cwi)

\* ------------------------------------------- handleStartTraining (app.js)
\* The catch block of handleStartTraining, app.js:592-597, reached before
\* train() was called.
HandlerCatch(p) ==
    /\ h' = [h EXCEPT ![p] = IdleHandler]
    /\ state' = UpdateTrainingUI([state EXCEPT !.isTraining = FALSE], "idle")
    /\ UNCHANGED <<modelManager, db, log, starts, tasks>>

\* Click on Start, app.js:489-494: the guard, then the first await.
HandleStartTraining(p) ==
    /\ h[p].pc = "idle"
    /\ starts < MaxStarts
    /\ IF state.isTraining
       THEN UNCHANGED vars
       ELSE /\ h' = [h EXCEPT ![p] = [IdleHandler EXCEPT !.pc = "getClasses"]]
            /\ log' = [log EXCEPT ![p] = EmptyLog]
            /\ starts' = starts + 1
            /\ UNCHANGED <<modelManager, state, db, tasks>>

\* getDataSummary: await this.getClasses(), part_000:957.
GetClasses(p) ==
    /\ h[p].pc = "getClasses"
    /\ h' = [h EXCEPT ![p].pc = "getAllImages", ![p].classes = db.classes]
    /\ UNCHANGED <<modelManager, state, db, log, starts, tasks>>

\* The for loop over state.classes, app.js:516-524, up to its next await,
\* for a handler whose locals are hp.  After the last class
\* prepareTrainingData is called; it throws at once (tf.stack of no tensors,
\* part_000:421-424) when it is given no image, into the catch block of
\* handleStartTraining, app.js:592-597.  Otherwise it empties classLabels
\* and pushes the label of the first class before its first await
\* (part_000:404-411); the other labels are pushed while it loads the images.
NextClass(p, hp) ==
    IF hp.idx <= Len(state.classes)
    THEN /\ h' = [h EXCEPT ![p] = [hp EXCEPT !.pc = "getImages"]]
         /\ UNCHANGED <<modelManager, state, db, log, starts, tasks>>
    ELSE IF NumImages(hp.cwi) = 0
    THEN /\ h' = [h EXCEPT ![p] = IdleHandler]
         /\ state' = UpdateTrainingUI([state EXCEPT !.isTraining = FALSE], "idle")
         /\ log' = [log EXCEPT ![p].request = hp.cwi]
         /\ UNCHANGED <<modelManager, db, starts, tasks>>
    ELSE /\ h' = [h EXCEPT ![p] = [hp EXCEPT !.pc = "prepare"]]
         /\ log' = [log EXCEPT ![p].request = hp.cwi]
         /\ modelManager' = [modelManager EXCEPT
                                !.classLabels = SubSeq(ClassLabelsOf(hp.cwi), 1, 1)]
         /\ UNCHANGED <<state, db, starts, tasks>>

\* getDataSummary: await this.getAllImages(), part_000:958-975, then the
\* validation and the parameters of handleStartTraining, app.js:496-516.
GetAllImages(p) ==
    /\ h[p].pc = "getAllImages"
    /\ IF Validate(GetDataSummary(h[p].classes, db.images))
       THEN \E n \in 1..MaxEpochs :
               NextClass(p, [h[p] EXCEPT !.idx = 1, !.epochs = n])
       ELSE /\ h' = [h EXCEPT ![p] = IdleHandler]
            /\ UNCHANGED <<modelManager, state, db, log, starts, tasks>>

\* await storage.getImagesByClass(cls.id) resolves, part_000:819-828 and
\* app.js:517-523.
GetImagesByClass(p) ==
    /\ h[p].pc = "getImages"
    /\ LET cls == state.classes[h[p].idx]
           n   == db.images[cls]
       IN  NextClass(p, [h[p] EXCEPT !.idx = @ + 1,
                                     !.cwi = IF n > 0 THEN @ @@ (cls :> n) ELSE @])

\* createModel up to its await, part_000:352-353: the class labels that
\* prepareTrainingData has just recorded are emptied.
CreateModelCall(mm) == [mm EXCEPT !.classLabels = <<>>]

\* prepareTrainingData resolves, part_000:401-431; then app.js:529-543 and
\* train() up to the await inside createModel, part_000:449-460 and 352-356.
PrepareTrainingData(p) ==
    /\ h[p].pc = "prepare"
    /\ h' = [h EXCEPT ![p].pc = "createModel", ![p].epoch = 0]
    /\ modelManager' = CreateModelCall(
           TrainReset([modelManager EXCEPT !.classLabels = ClassLabelsOf(h[p].cwi)], p))
    /\ state' = StartTimer(UpdateTrainingUI([state EXCEPT !.isTraining = TRUE,
                                                            !.isPaused = FALSE],
                                              "training"))
    /\ log' = [log EXCEPT ![p].started = TRUE, ![p].epochs = h[p].epochs]
    /\ UNCHANGED <<db, starts, tasks>>

\* loadImage rejects (img.onerror, part_000:436-443): prepareTrainingData
\* throws into the catch block of handleStartTraining.
PrepareFail(p) ==
    /\ h[p].pc = "prepare"
    /\ HandlerCatch(p)

\* await this.createModel(...) resolves, part_000:355-361, then compileModel
\* and the loop head of epoch 0, part_000:461-469.
CreateModel(p) ==
    /\ h[p].pc = "createModel"
    /\ LoopHead(p, [modelManager EXCEPT
                       !.model = [by |-> p, units |-> Cardinality(DOMAIN h[p].cwi)]],
                log[p], 0)

\* createModel throws (the MobileNet base fails to load, part_000:311).
CreateModelThrow(p) ==
    /\ h[p].pc = "createModel"
    /\ TrainCatch(p, modelManager,
                  [log[p] EXCEPT !.trace = Append(@, Entry("createModelThrow", -1, "LoadError"))],
                  "LoadError")

\* The timer of the pause wait fires, part_000:472-476.
PollPaused(p) ==
    /\ h[p].pc = "paused"
    /\ AfterWait(p, modelManager, log[p], h[p].epoch)

\* Mutant of EpochArg: the callback is given the controller's shared index.
EpochArgShared(p) == modelManager.currentEpoch

\* The epoch passed to callbacks.onEpochEnd: the loop's own variable,
\* part_000:497.
EpochArg(p) == h[p].epoch

\* model.fit resolves: onEpochEnd, then the next loop head, part_000:495-504.
FitDone(p) ==
    /\ h[p].pc = "fit"
    /\ LET lg == OnEpochEnd(log[p], EpochArg(p))
       IN  \/ LoopHead(p, modelManager, lg, h[p].epoch + 1)
           \/ TrainCatch(p, modelManager, lg, "CallbackError")

\* model.fit rejects (the runtime, or an onBatchEnd callback inside it).
FitThrow(p) ==
    /\ h[p].pc = "fit"
    /\ TrainCatch(p, modelManager,
                  [log[p] EXCEPT !.trace = Append(@, Entry("fitThrow", h[p].epoch, "FitError"))],
                  "FitError")

\* ------------------------------------------------- pause / resume / stop
\* pauseTraining, part_000:524-526
PauseTraining(mm) == [mm EXCEPT !.isPaused = TRUE]
\* resumeTraining, part_000:531-533
ResumeTraining(mm) == [mm EXCEPT !.isPaused = FALSE]
\* stopTraining, part_000:538-541
StopTraining(mm) == [mm EXCEPT !.shouldStop = TRUE, !.isPaused = FALSE]

\* Mutant of HandlePauseTraining: the guard on state.isTraining is missing.
HandlePauseTrainingUnguarded ==
    /\ IF state.isPaused
       THEN /\ modelManager' = ResumeTraining(modelManager)
            /\ state' = [state EXCEPT !.isPaused = FALSE]
       ELSE /\ modelManager' = PauseTraining(modelManager)
            /\ state' = [state EXCEPT !.isPaused = TRUE]
    /\ UNCHANGED <<db, h, log, starts, tasks>>

\* Click on Pause/Resume, app.js:600-614.
HandlePauseTraining ==
    /\ state.isTraining
    /\ IF state.isPaused
       THEN /\ modelManager' = ResumeTraining(modelManager)
            /\ state' = [state EXCEPT !.isPaused = FALSE]
       ELSE /\ modelManager' = PauseTraining(modelManager)
            /\ state' = [state EXCEPT !.isPaused = TRUE]
    /\ UNCHANGED <<db, h, log, starts, tasks>>

\* Click on Stop, confirmed, app.js:616-622.
HandleStopTraining ==
    /\ state.isTraining
    /\ modelManager' = StopTraining(modelManager)
    /\ log' = [p \in Handlers |->
                 IF InTrain(p) /\ ~Stopped(p)
                 THEN [log[p] EXCEPT !.trace = Append(@, Entry("stop", -1, ""))]
                 ELSE log[p]]
    /\ UNCHANGED <<state, db, h, starts, tasks>>

\* ----------------------------------------------------------- specification
Next ==
    \/ \E p \in Handlers :
          \/ HandleStartTraining(p)
          \/ GetClasses(p)
          \/ GetAllImages(p)
          \/ GetImagesByClass(p)
          \/ PrepareTrainingData(p)
          \/ PrepareFail(p)
          \/ CreateModel(p)
          \/ CreateModelThrow(p)
          \/ PollPaused(p)
          \/ FitDone(p)
          \/ FitThrow(p)
    \/ HandlePauseTraining
    \/ HandleStopTraining

Spec == Init /\ [][Next]_vars

\* ================================================================== claims
\* C1: at most one training session is active at any time: there is never
\* more than one epoch loop running against the controller, whatever the
\* interleaving of start requests.
C1_SingleEpochLoop ==
    Cardinality({p \in Handlers : InEpochLoop(p)}) <= 1

\* The fields of the controller that make up the state of its session.
SessionState ==
    <<modelManager.isPaused, modelManager.shouldStop, modelManager.currentEpoch,
      modelManager.model, modelManager.trainingCallbacks>>

\* C2: a start (a call of train) made while a session is Running or Paused
\* does not alter the session's pause flag, cancellation flag, epoch index,
\* model handle or callbacks.
C2_StartWhileActiveAltersNothing ==
    [][\A p \in Handlers :
          (h[p].pc = "prepare" /\ h'[p].pc = "createModel" /\ modelManager.isTraining)
              => SessionState' = SessionState]_vars

\* C3: the tensors of a session are released exactly once, whichever way the
\* session ends: never twice, and once when it has ended.
C3_ReleasedExactlyOnce ==
    \A p \in Handlers :
        /\ Released(p) <= 1
        /\ Ended(p) => Released(p) = 1

\* C4: every session delivers exactly one terminal outcome: never more than
\* one of onTrainingEnd(true), onTrainingEnd(false), onTrainingError(e), and
\* one when it has ended.
C4_ExactlyOneOutcome ==
    \A p \in Handlers :
        /\ Len(Outcomes(p)) <= 1
        /\ Ended(p) => Len(Outcomes(p)) = 1

\* C5: the loop never issues the runtime fit call at a moment when the pause
\* flag is set and the cancellation flag is unset.
C5_NoFitWhilePaused ==
    [][\A p \in Handlers :
          (Len(log'[p].trace) = Len(log[p].trace) + 1
           /\ IsFit(log'[p].trace[Len(log'[p].trace)]))
              => /\ ~(modelManager.isPaused /\ ~modelManager.shouldStop)
                 /\ ~(modelManager'.isPaused /\ ~modelManager'.shouldStop)]_vars

\* C5 witness: a loop parked at an epoch boundary while the pause flag is set
\* and the cancellation flag is not.
C5_Witness ==
    \E p \in Handlers :
        /\ h[p].pc = "paused"
        /\ h[p].epoch >= 1
        /\ modelManager.isPaused /\ ~modelManager.shouldStop

\* C6: after stop() is called during a session, the session issues no further
\* fit call and emits at most one more ProgressEvent (the epoch in flight).
C6_StopEndsSession ==
    \A p \in Handlers : \A i \in DOMAIN Trace(p) :
        Trace(p)[i].op = "stop" =>
            /\ \A j \in DOMAIN Trace(p) : j > i => ~IsFit(Trace(p)[j])
            /\ Cardinality({j \in DOMAIN Trace(p) : j > i /\ IsEvent(Trace(p)[j])}) <= 1

\* C7: a training request (the class-to-images mapping handed to training)
\* with fewer than 2 classes or fewer than 4 images never starts a session.
C7_SmallRequestRejected ==
    \A p \in Handlers :
        log[p].started =>
            /\ Cardinality(DOMAIN log[p].request) >= 2
            /\ NumImages(log[p].request) >= 4

\* The runtime threw during the session (createModel or fit).
RuntimeThrew(p) ==
    \E i \in DOMAIN Trace(p) : Trace(p)[i].op \in {"fitThrow", "createModelThrow"}

\* An onEpochEnd callback of the session raised: the catch block of train()
\* reported it right after the callback.
EpochCallbackRaised(p) ==
    \E i \in DOMAIN Trace(p) :
        /\ IsEvent(Trace(p)[i])
        /\ i < Len(Trace(p))
        /\ Trace(p)[i + 1].op = "onTrainingError"

\* The epoch indices 0, 1, ..., n-1.
UpTo(n) == [i \in 1..n |-> i - 1]

Completed == Entry("onTrainingEnd", -1, "Completed")

\* The callbacks of the session, ProgressEvents and outcomes, in order.
IsCallback(e) == IsEvent(e) \/ IsOutcome(e)
Callbacks(p) == SelectSeq(Trace(p), IsCallback)

\* Exactly the ProgressEvents 0..n-1 were emitted, in order, followed by
\* Outcome(Completed), which was delivered exactly once.
RanToCompletion(p, n) ==
    LET cb == Callbacks(p)
    IN  /\ Events(p) = UpTo(n)
        /\ Len(cb) > n
        /\ \A i \in 1..n : IsEvent(cb[i])
        /\ cb[n + 1] = Completed
        /\ Cardinality({i \in DOMAIN cb : cb[i] = Completed}) = 1

C9_EventsOrdered ==
    \A p \in Handlers :
        LET t == Trace(p) IN
        /\ \A i, j \in DOMAIN t :
              (i < j /\ IsEvent(t[i]) /\ IsEvent(t[j])) => t[i].epoch < t[j].epoch
        /\ \A i, j \in DOMAIN t :
              (i < j /\ IsOutcome(t[i])) => ~IsEvent(t[j])
        /\ \A j \in DOMAIN t :
              IsEvent(t[j]) => \E i \in 1..(j - 1) : IsFit(t[i]) /\ t[i].epoch = t[j].epoch
        /\ \A i \in DOMAIN t :
              IsFit(t[i]) =>
                 \/ h[p].pc = "fit" /\ h[p].epoch = t[i].epoch
                 \/ \E j \in DOMAIN t :
                       /\ j > i
                       /\ t[j].op \in {"onEpochEnd", "fitThrow"}
                       /\ t[j].epoch = t[i].epoch

\* C9 witness: a session that has ended after the ProgressEvents 0 and 1.
C9_Witness ==
    \E p \in Handlers :
        /\ Ended(p)
        /\ Events(p) = <<0, 1>>
        /\ Len(Outcomes(p)) >= 1

\* C10: when the fit call of epoch k throws, the session ends at once: the
\* ProgressEvents 0..k-1 and no other were emitted, the throw is followed by
\* onTrainingError with the same error and by the release of the tensors and
\* by nothing else (no further fit call), and the tensors are released once.
C10_FitThrowAborts ==
    \A p \in Handlers : \A i \in DOMAIN Trace(p) :
        Trace(p)[i].op = "fitThrow" =>
            LET t == Trace(p)
                k == t[i].epoch
            IN  /\ Ended(p)
                /\ Events(p) = UpTo(k)
                /\ Len(t) = i + 2
                /\ t[i + 1] = Entry("onTrainingError", -1, t[i].arg)
                /\ IsDispose(t[i + 2])
                /\ Released(p) = 1
                /\ Len(SelectSeq(t, IsFit)) = k + 1

\* C10 witness: the fit call of epoch 1 threw, after one ProgressEvent.
C10_Witness ==
    \E p \in Handlers : \E i \in DOMAIN Trace(p) :
        /\ Trace(p)[i].op = "fitThrow"
        /\ Trace(p)[i].epoch = 1
        /\ Events(p) = <<0>>
        /\ Outcomes(p) = <<Entry("onTrainingError", -1, "FitError")>>

\* stop() was requested before the session emitted any ProgressEvent.
StopBeforeFirstEvent(p) ==
    \E i \in DOMAIN Trace(p) :
        /\ Trace(p)[i].op = "stop"
        /\ \A j \in 1..(i - 1) : ~IsEvent(Trace(p)[j])

\* A presentation callback of the session raised (onEpochEnd or onTrainingEnd).
CallbackRaised(p) ==
    \E i \in DOMAIN Trace(p) : Trace(p)[i] = Entry("onTrainingError", -1, "CallbackError")

StoppedOutcome == Entry("onTrainingEnd", -1, "Stopped")

\* C11: a session for which stop() was requested before any epoch completed
\* (the runtime not throwing and no callback raising) has emitted at most
\* one ProgressEvent, then Outcome(Stopped) and nothing else, and its tensors
\* were released once.
C11_EarlyStop ==
    \A p \in Handlers :
        (Ended(p) /\ StopBeforeFirstEvent(p) /\ ~RuntimeThrew(p) /\ ~CallbackRaised(p)) =>
            /\ Len(Events(p)) <= 1
            /\ Outcomes(p) = <<StoppedOutcome>>
            /\ Released(p) = 1

\* C12: cancellation wins over pause.  Once stop() was requested for a
\* session, the session does not enter the paused wait, and a session parked
\* in the paused wait leaves it at its next step, without resume(), ending
\* with Outcome(Stopped).
C12_StopWinsOverPause ==
    [][\A p \in Handlers :
          Stopped(p) =>
             /\ h[p].pc # "paused" => h'[p].pc # "paused"
             /\ (h[p].pc = "paused" /\ h'[p] # h[p]) =>
                   /\ h'[p].pc = "idle"
                   /\ StoppedOutcome \in {log'[p].trace[i] : i \in DOMAIN log'[p].trace}]_vars

\* C13: while a session is in train(), the current epoch index of the
\* controller never decreases and stays within 0 .. epochCount - 1.
C13_EpochIndexMonotone ==
    [][\A p \in Handlers :
          (InTrain(p) /\ InTrain(p)') =>
             /\ modelManager'.currentEpoch >= modelManager.currentEpoch
             /\ modelManager'.currentEpoch >= 0
             /\ modelManager'.currentEpoch < log'[p].epochs]_vars

C15_PauseKeepsEpochInFlight ==
    [][/\ HandlePauseTraining => UNCHANGED <<h, log>>
       /\ \A p \in Handlers :
             (/\ h[p].pc = "fit"
              /\ modelManager.isPaused /\ ~modelManager.shouldStop
              /\ h'[p] # h[p]
              /\ ~RuntimeThrew(p)') =>
                 /\ Len(log'[p].trace) > Len(log[p].trace)
                 /\ log'[p].trace[Len(log[p].trace) + 1] = Entry("onEpochEnd", h[p].epoch, "")
                 /\ h'[p].pc \in {"paused", "idle"}
                 /\ h'[p].pc = "paused" => h'[p].epoch = h[p].epoch + 1
                 /\ (h'[p].pc = "idle" /\ ~CallbackRaised(p)') =>
                       h[p].epoch + 1 = log[p].epochs]_vars

\* C15 witness: a session parked before epoch 1 right after the ProgressEvent
\* of epoch 0, whose fit call was in flight when pause() was called.
C15_Witness ==
    \E p \in Handlers :
        /\ h[p].pc = "paused"
        /\ h[p].epoch = 1
        /\ modelManager.isPaused /\ ~modelManager.shouldStop
        /\ Trace(p)[Len(Trace(p))] = Entry("onEpochEnd", 0, "")

\* ------------------------------------------------------------- liveness
\* What the scheduling of the code guarantees to a session in train(): every
\* runtime call it awaits settles (createModel and fit return or throw), and
\* the 100 ms timer of the paused wait fires.
Fairness ==
    \A p \in Handlers :
        /\ WF_vars(CreateModel(p) \/ CreateModelThrow(p))
        /\ WF_vars(FitDone(p) \/ FitThrow(p))
        /\ WF_vars(PollPaused(p))

\* The store once the user has added both classes and four images to each.
InitLive ==
    /\ Init
    /\ db.classes = ClassIds
    /\ \A c \in ClassIds : db.images[c] = 4

SpecLive == InitLive /\ [][Next]_vars /\ Fairness

\* The session is held in the paused wait: parked, pause flag set, no stop().
HeldPaused(p) ==
    h[p].pc = "paused" /\ modelManager.isPaused /\ ~modelManager.shouldStop

\* The session has ended with a terminal outcome and its tensors released.
EndedReleased(p) ==
    Ended(p) /\ Len(Outcomes(p)) >= 1 /\ Released(p) >= 1

\* C16: every started session that is not left held in the paused wait
\* forever eventually ends with a terminal outcome and its tensors released.
C16_SessionTerminates ==
    \A p \in Handlers :
        (<>[]~HeldPaused(p)) => (log[p].started ~> EndedReleased(p))

\* C16 witness: a session that was parked in the paused wait, then stopped,
\* has ended with its outcome delivered and its tensors released.
C16_Witness ==
    \E p \in Handlers :
        /\ EndedReleased(p)
        /\ Stopped(p)
        /\ Events(p) = <<0>>
        /\ Trace(p)[Len(Trace(p)) - 2].op = "stop"

\* C17: when a session ends, the training flags of the controller and of
\* the application are cleared, so that the next start() passes the guard;
\* and every session begins Running with the pause flag clear, the
\* cancellation flag clear and epoch index 0, whatever pause() and stop()
\* calls came before.
C17_FreshSession ==
    [][\A p \in Handlers :
          /\ (h[p].pc # "idle" /\ log'[p].started /\ h'[p].pc = "idle") =>
                ~modelManager'.isTraining /\ ~state'.isTraining
          /\ (h[p].pc = "prepare" /\ h'[p].pc = "createModel") =>
                /\ modelManager'.isTraining /\ state'.isTraining
                /\ ~modelManager'.isPaused /\ ~state'.isPaused
                /\ ~modelManager'.shouldStop
                /\ modelManager'.currentEpoch = 0
                /\ log'[p].trace = <<>>]_vars

\* C17 witness: a session was stopped and has ended, and the next session,
\* started afterwards, begins with the flags clear.
C17_Witness ==
    \E p, q \in Handlers :
        /\ p # q
        /\ Ended(q) /\ Stopped(q) /\ Outcomes(q) = <<StoppedOutcome>>
        /\ starts = 2
        /\ h[p].pc = "createModel"
        /\ Trace(p) = <<>>
        /\ ~modelManager.shouldStop /\ ~modelManager.isPaused

\* ------------------------------------- test image, save model, load model
\* The probabilities of the model's output, in tenths.
Probs == {1, 2}

\* One start invocation at a time, on the filled store of InitLive: this
\* specification leaves out the start race of C1.
ModelHandlers == {1}

\* The classes of the session that built the current model, when that
\* session has ended Completed; otherwise none.
TrainedClasses ==
    LET m == modelManager.model
    IN  IF m.by \in Handlers /\ Ended(m.by) /\ Outcomes(m.by) = <<Completed>>
        THEN DOMAIN log[m.by].request
        ELSE {}

\* Array.prototype.sort((a, b) => b.probability - a.probability), which is
\* stable: e goes behind every entry whose probability is not smaller.
RECURSIVE InsertByProbability(_, _)
InsertByProbability(e, s) ==
    IF s = <<>> THEN <<e>>
    ELSE IF Head(s).probability >= e.probability
         THEN <<Head(s)>> \o InsertByProbability(e, Tail(s))
         ELSE <<e>> \o s

RECURSIVE SortByProbability(_)
SortByProbability(s) ==
    IF s = <<>> THEN <<>>
    ELSE InsertByProbability(s[Len(s)], SortByProbability(SubSeq(s, 1, Len(s) - 1)))

\* predict, part_000:551-561, for the output pr of the model: one entry for
\* each class label (0 stands for the undefined probability of a label
\* beyond the output layer), sorted.
Predict(mm, pr) ==
    SortByProbability(
        [i \in 1..Len(mm.classLabels) |->
            [classId     |-> mm.classLabels[i].id,
             probability |-> IF i \in DOMAIN pr THEN pr[i] ELSE 0]])

\* The guard of predict, part_000:547-549.
\* Mutant of PredictError: predict has no guard.
PredictUnguarded(mm) == NoError

PredictError(mm) == IF mm.model = NoModel THEN "Model not trained" ELSE NoError

\* The guard of saveModel, part_000:568-570.
SaveModelError(mm) == IF mm.model = NoModel THEN "No model to save" ELSE NoError

\* A test image is dropped, app.js:673-685: the guard, then the file is read
\* and the image decoded.
HandleTestImage ==
    /\ tasks.test.pc = "idle"
    /\ IF modelManager.model = NoModel
       THEN UNCHANGED vars
       ELSE /\ tasks' = [tasks EXCEPT !.test.pc = "loading"]
            /\ UNCHANGED <<modelManager, state, db, h, log, starts>>

\* img.onload, app.js:691-701: predict on the current model and labels.
\* When predict throws, the promise of the onload callback is rejected and
\* nothing is shown.
TestImageLoaded ==
    /\ tasks.test.pc = "loading"
    /\ IF PredictError(modelManager) # NoError
       THEN tasks' = [tasks EXCEPT !.test.pc = "idle",
                                   !.test.error = PredictError(modelManager)]
       ELSE \E pr \in [1..modelManager.model.units -> Probs] :
               tasks' = [tasks EXCEPT
                           !.test.pc = "idle",
                           !.test.error = NoError,
                           !.test.result = [done    |-> TRUE,
                                            trained |-> TrainedClasses,
                                            entries |-> Predict(modelManager, pr)]]
    /\ UNCHANGED <<modelManager, state, db, h, log, starts>>

\* Click on Save, app.js:710-717, and saveModel up to await this.model.save,
\* part_000:567-572.
HandleSaveModel ==
    /\ tasks.save.pc = "idle"
    /\ IF modelManager.model = NoModel
       THEN UNCHANGED vars
       ELSE /\ tasks' = [tasks EXCEPT
                           !.save = [pc      |-> "saveModel",
                                     model   |-> modelManager.model,
                                     trained |-> TrainedClasses,
                                     info    |-> NoInfo]]
            /\ UNCHANGED <<modelManager, state, db, h, log, starts>>

\* this.model.save resolves; saveModel returns its info, part_000:574-577,
\* and handleSaveModel awaits storage.saveModelInfo, app.js:718.
ModelSaved ==
    /\ tasks.save.pc = "saveModel"
    /\ db' = [db EXCEPT !.model = tasks.save.model]
    /\ tasks' = [tasks EXCEPT
                   !.save.pc = "saveModelInfo",
                   !.save.info = [saved |-> TRUE,
                                  classLabels |-> modelManager.classLabels]]
    /\ UNCHANGED <<modelManager, state, h, log, starts>>

\* saveModelInfo resolves, part_000:877-889.
ModelInfoSaved ==
    /\ tasks.save.pc = "saveModelInfo"
    /\ db' = [db EXCEPT !.modelInfo = tasks.save.info]
    /\ tasks' = [tasks EXCEPT !.save.pc = "idle"]
    /\ UNCHANGED <<modelManager, state, h, log, starts>>

\* Click on Load, app.js:726-728: await storage.getModelInfo().
HandleLoadModel ==
    /\ tasks.load.pc = "idle"
    /\ tasks' = [tasks EXCEPT !.load.pc = "getModelInfo"]
    /\ UNCHANGED <<modelManager, state, db, h, log, starts>>

\* getModelInfo resolves, part_000:894-902; without a record the handler
\* returns, otherwise loadModel awaits tf.loadLayersModel, app.js:729-734.
ModelInfoRead ==
    /\ tasks.load.pc = "getModelInfo"
    /\ tasks' = [tasks EXCEPT
                   !.load = IF db.modelInfo.saved
                            THEN [pc |-> "loadModel", info |-> db.modelInfo]
                            ELSE [pc |-> "idle", info |-> NoInfo]]
    /\ UNCHANGED <<modelManager, state, db, h, log, starts>>

\* tf.loadLayersModel resolves, part_000:583-588.
ModelLoaded ==
    /\ tasks.load.pc = "loadModel"
    /\ db.model # NoModel
    /\ modelManager' = [modelManager EXCEPT
                          !.model = [by |-> LoadedBy, units |-> db.model.units],
                          !.classLabels = tasks.load.info.classLabels]
    /\ tasks' = [tasks EXCEPT !.load.pc = "idle"]
    /\ UNCHANGED <<state, db, h, log, starts>>

NextModel ==
    \/ \E p \in ModelHandlers :
          \/ HandleStartTraining(p)
          \/ GetClasses(p)
          \/ GetAllImages(p)
          \/ GetImagesByClass(p)
          \/ PrepareTrainingData(p)
          \/ PrepareFail(p)
          \/ CreateModel(p)
          \/ CreateModelThrow(p)
          \/ PollPaused(p)
          \/ FitDone(p)
          \/ FitThrow(p)
    \/ HandlePauseTraining
    \/ HandleStopTraining
    \/ HandleTestImage
    \/ TestImageLoaded
    \/ HandleSaveModel
    \/ ModelSaved
    \/ ModelInfoSaved
    \/ HandleLoadModel
    \/ ModelInfoRead
    \/ ModelLoaded

SpecModel == InitLive /\ [][NextModel]_vars

\* The class ids of a list of class labels or of prediction entries.
LabelIds(labels) == {labels[i].id : i \in DOMAIN labels}
EntryIds(entries) == {entries[i].classId : i \in DOMAIN entries}

\* C18: when predict is called on the model of a session that ended
\* Completed on K classes, it returns exactly one entry for each of the K
\* classes, in descending order of probability.
C18_PredictCoversClasses ==
    LET r == tasks.test.result
    IN  (r.done /\ r.trained # {}) =>
            /\ Len(r.entries) = Cardinality(r.trained)
            /\ EntryIds(r.entries) = r.trained
            /\ \A i, j \in DOMAIN r.entries :
                  i < j => r.entries[i].probability >= r.entries[j].probability

\* C20: the info that saveModel returns for the model of a session that ended
\* Completed holds one class label for each class of that session, and
\* loadModel with the stored info makes that list the controller's class
\* labels again.
C20_SaveLoadRoundTrip ==
    [][/\ (ModelSaved /\ tasks.save.trained # {}) =>
             /\ LabelIds(tasks'.save.info.classLabels) = tasks.save.trained
             /\ Len(tasks'.save.info.classLabels) = Cardinality(tasks.save.trained)
       /\ ModelLoaded =>
             modelManager'.classLabels = tasks.load.info.classLabels]_vars

\* --------------------------------------------- upload images, delete class
\* The ids of the classes the page shows.
ShownClasses == {state.classes[i] : i \in DOMAIN state.classes}

\* Files are dropped on the upload zone, app.js:406-421: the target is the
\* selected class, one of the classes shown; the first file is being read.
HandleTrainingImages ==
    /\ tasks.upload.pc = "idle"
    /\ tasks.upload.drops < MaxDrops
    /\ IF state.classes = <<>>
       THEN UNCHANGED vars
       ELSE /\ \E c \in ShownClasses : \E n \in 1..MaxFiles :
                  tasks' = [tasks EXCEPT
                              !.upload = [pc |-> "addImage", classId |-> c,
                                          left |-> n, drops |-> @.drops + 1]]
            /\ UNCHANGED <<modelManager, state, db, h, log, starts>>

\* await readFileAsDataURL, await storage.addImage(classId, dataUrl),
\* app.js:422-426 and part_000:802-814: the record is added whether or not
\* the class is still in the store.  After the last file the handler awaits
\* getImagesByClass, app.js:433.
AddImage ==
    /\ tasks.upload.pc = "addImage"
    /\ db' = [db EXCEPT !.images[tasks.upload.classId] = @ + 1]
    /\ tasks' = [tasks EXCEPT
                   !.upload.left = @ - 1,
                   !.upload.pc = IF tasks.upload.left = 1 THEN "count" ELSE "addImage"]
    /\ UNCHANGED <<modelManager, state, h, log, starts>>

\* getImagesByClass resolves; the count shown is updated, app.js:433-439.
UploadDone ==
    /\ tasks.upload.pc = "count"
    /\ tasks' = [tasks EXCEPT !.upload.pc = "idle"]
    /\ state' = UpdateTrainingButtonState(state)
    /\ UNCHANGED <<modelManager, db, h, log, starts>>

\* Click on the delete button of a class, confirmed, app.js:341-347: deleteClass
\* calls deleteImagesByClass, which awaits getImagesByClass, part_000:784-786
\* and 859-860.
HandleDeleteClass(id) ==
    /\ tasks.del.pc = "idle"
    /\ id \in ShownClasses
    /\ tasks' = [tasks EXCEPT !.del.pc = "getImagesByClass", !.del.id = id]
    /\ UNCHANGED <<modelManager, state, db, h, log, starts>>

\* getImagesByClass resolves with the images the class holds now, and the
\* delete requests for these are queued, part_000:860-869.
DeleteSnapshot ==
    /\ tasks.del.pc = "getImagesByClass"
    /\ tasks' = [tasks EXCEPT !.del.pc = "deleteImages",
                              !.del.images = db.images[tasks.del.id]]
    /\ UNCHANGED <<modelManager, state, db, h, log, starts>>

\* The delete requests complete: the images of the snapshot are gone; the
\* delete request for the class record is issued, part_000:788-794.
DeleteImages ==
    /\ tasks.del.pc = "deleteImages"
    /\ db' = [db EXCEPT !.images[tasks.del.id] = @ - tasks.del.images]
    /\ tasks' = [tasks EXCEPT !.del.pc = "deleteClass", !.del.images = 0]
    /\ UNCHANGED <<modelManager, state, h, log, starts>>

\* The class record is deleted and deleteClass resolves; handleDeleteClass
\* drops the class from state.classes, app.js:348-361.
ClassDeleted ==
    /\ tasks.del.pc = "deleteClass"
    /\ db' = [db EXCEPT !.classes = @ \ {tasks.del.id},
                        !.names = Without(@, tasks.del.id)]
    /\ state' = UpdateTrainingButtonState(
                    [state EXCEPT
                       !.classes = SelectSeq(@, LAMBDA c : c # tasks.del.id),
                       !.names = Without(@, tasks.del.id),
                       !.cards = Without(@, tasks.del.id),
                       !.selector = Without(state.names, tasks.del.id)])
    /\ tasks' = [tasks EXCEPT !.del.pc = "idle", !.del.id = 0,
                              !.del.done = @ \cup {tasks.del.id}]
    /\ UNCHANGED <<modelManager, h, log, starts>>

NextStore ==
    \/ HandleTrainingImages
    \/ AddImage
    \/ UploadDone
    \/ \E id \in ClassIds : HandleDeleteClass(id)
    \/ DeleteSnapshot
    \/ DeleteImages
    \/ ClassDeleted

SpecStore == Init /\ [][NextStore]_vars

\* C19: once deleteClass(id) has completed, the store holds no image whose
\* classId is id, whatever uploads to that class were in progress.
C19_DeleteCascades ==
    \A id \in tasks.del.done : db.images[id] = 0

\* C24: a session for which stop() was requested never delivers
\* Outcome(Completed), and a session that delivers Outcome(Completed) has
\* emitted exactly the ProgressEvents 0 .. epochCount - 1.
C24_CompletedIffNotCancelled ==
    \A p \in Handlers :
        (\E i \in DOMAIN Trace(p) : Trace(p)[i] = Completed) =>
            /\ ~Stopped(p)
            /\ Events(p) = UpTo(log[p].epochs)

\* C26: whenever control is back at the event loop, state.isTraining is true
\* if and only if modelManager.isTraining is true.
C26_TrainingFlagsAgree ==
    state.isTraining <=> modelManager.isTraining

\* C27: while a session is in train(), state.isPaused equals
\* modelManager.isPaused.
C27_PauseFlagMirrored ==
    (\E p \in Handlers : InTrain(p)) => (state.isPaused <=> modelManager.isPaused)

\* C28: there is at most one interval timer, and there is one exactly while
\* a session is in train(): it is set when the session starts and cleared
\* on every terminal path.
C28_TimerWhileActive ==
    /\ state.liveTimers <= 1
    /\ state.liveTimers = 1 <=> \E p \in Handlers : InTrain(p)

\* ------------------------------------------------------------ batch events
\* The options of the batch size control.
BatchSizes == {16, 32, 64}

Ceil(a, b) == (a + b - 1) \div b

\* Mutant of TotalBatches: the count is rounded down.
TotalBatchesFloor(numSamples, batchSize) == numSamples \div batchSize

\* const totalBatches = Math.ceil(numSamples / batchSize), part_000:464-465
TotalBatches(numSamples, batchSize) == Ceil(numSamples, batchSize)

\* fit with validationSplit: 0.2 (part_000:483) trains on the first
\* floor(0.8 * numSamples) samples, in batches of batchSize.
TrainSamples(numSamples) == (numSamples * 8) \div 10
FitBatches(numSamples, batchSize) == Ceil(TrainSamples(numSamples), batchSize)

\* train() computes totalBatches and calls fit for one epoch,
\* part_000:463-484.
FitEpoch ==
    /\ tasks.fit.pc = "idle"
    /\ \E n \in 1..MaxSamples : \E bs \in BatchSizes :
          tasks' = [tasks EXCEPT
                      !.fit = [pc |-> "fit", numSamples |-> n, batchSize |-> bs,
                               totalBatches |-> TotalBatches(n, bs), batch |-> -1]]
    /\ UNCHANGED <<modelManager, state, db, h, log, starts>>

\* The runtime ends a batch: onBatchEnd(batch, logs) calls
\* callbacks.onBatchEnd(batch, totalBatches, logs), part_000:485-488 and
\* app.js:557-559.  batch is the index of the BatchEvent emitted last.
OnBatchEnd ==
    /\ tasks.fit.pc = "fit"
    /\ tasks.fit.batch + 1 < FitBatches(tasks.fit.numSamples, tasks.fit.batchSize)
    /\ tasks' = [tasks EXCEPT !.fit.batch = @ + 1]
    /\ UNCHANGED <<modelManager, state, db, h, log, starts>>

\* The last batch of the epoch is done: fit resolves, part_000:479.
FitEpochDone ==
    /\ tasks.fit.pc = "fit"
    /\ tasks.fit.batch + 1 = FitBatches(tasks.fit.numSamples, tasks.fit.batchSize)
    /\ tasks' = [tasks EXCEPT !.fit = IdleTasks.fit]
    /\ UNCHANGED <<modelManager, state, db, h, log, starts>>

NextBatch ==
    \/ FitEpoch
    \/ OnBatchEnd
    \/ FitEpochDone

SpecBatch == Init /\ [][NextBatch]_vars

\* C22: every BatchEvent carries a batch index with
\* 0 <= batch index < batch count, the batch count being
\* ceil(numSamples / batchSize).
C22_BatchIndexInRange ==
    tasks.fit.batch >= 0 =>
        /\ tasks.fit.batch < tasks.fit.totalBatches
        /\ tasks.fit.totalBatches = Ceil(tasks.fit.numSamples, tasks.fit.batchSize)

\* C22 witness: the BatchEvent of the last of three batches of an epoch.
C22_Witness ==
    /\ tasks.fit.batch = 2
    /\ tasks.fit.totalBatches = 3

\* C25: while a session is in its epoch loop, no step of another operation
\* (loading a model, a further train call) clears or replaces the model
\* handle the session trains.
C25_ModelHandleStable ==
    [][\A p \in Handlers :
          (InEpochLoop(p) /\ InEpochLoop(p)') =>
              modelManager'.model = modelManager.model]_vars

\* C23: the start control is enabled only when at least two classes exist
\* and no session is active: it stays disabled from the start of a session
\* to its terminal Outcome.
C23_StartDisabledWhileActive ==
    ~state.startDisabled =>
        /\ Len(state.classes) >= 2
        /\ \A p \in Handlers : ~InTrain(p)

\* C30: in the data summary computed from the store, totalImages equals the
\* sum of the per-class counts over the existing classes: no image of a
\* class that no longer exists is counted.
C30_TotalIsSumOfClassCounts ==
    LET summary == GetDataSummary(db.classes, db.images)
    IN  summary.totalImages = SumOver(summary.classCounts, DOMAIN summary.classCounts)

\* --------------------------------------------------- add class, rename class
\* Click on Add Class, app.js:229-241: name is the trimmed value of the input.
\* An empty name and a name some class of state.classes bears, ignoring case,
\* are refused; otherwise storage.addClass(name) is awaited.
HandleAddClass(t, name) ==
    /\ tasks.add[t].pc = "idle"
    /\ db.nextId + Cardinality({u \in AddRequests : tasks.add[u].pc # "idle"})
          <= Cardinality(ClassIds) + MaxAdds
    /\ IF \/ name = NoName
          \/ \E c \in DOMAIN state.names :
                ToLowerCase(state.names[c]) = ToLowerCase(name)
       THEN UNCHANGED vars
       ELSE /\ tasks' = [tasks EXCEPT !.add[t] = [pc |-> "addClass", name |-> name]]
            /\ UNCHANGED <<modelManager, state, db, h, log, starts>>

\* store.add gives the record the next key (part_000:735-743) and addClass
\* resolves: the class is pushed, its card rendered, the selector rebuilt,
\* app.js:243-250.
AddClassDone(t) ==
    /\ tasks.add[t].pc = "addClass"
    /\ LET id   == db.nextId
           name == tasks.add[t].name
           names == [c \in DOMAIN state.names \cup {id} |->
                        IF c = id THEN name ELSE state.names[c]]
       IN  /\ db' = [db EXCEPT !.classes = @ \cup {id},
                               !.names = [c \in DOMAIN @ \cup {id} |->
                                             IF c = id THEN name ELSE @[c]],
                               !.nextId = @ + 1]
           /\ state' = UpdateTrainingButtonState(
                           [state EXCEPT
                              !.classes = Append(@, id),
                              !.names = names,
                              !.cards = [c \in DOMAIN @ \cup {id} |->
                                            IF c = id THEN Card(name) ELSE @[c]],
                              !.selector = names])
    /\ tasks' = [tasks EXCEPT !.add[t] = IdleTasks.add[t]]
    /\ UNCHANGED <<modelManager, h, log, starts>>

\* The add request fails (part_000:741): the catch block, app.js:254-257.
AddClassFail(t) ==
    /\ tasks.add[t].pc = "addClass"
    /\ tasks' = [tasks EXCEPT !.add[t] = IdleTasks.add[t]]
    /\ UNCHANGED <<modelManager, state, db, h, log, starts>>

\* Click on the edit button of a card, app.js:300-310: the name span the
\* button was given when the card was rendered is replaced by an input.
\* Once saveEdit has put a new span in the document the span the button
\* holds has no parent, replaceWith does nothing and the input is never shown.
HandleEditClassName(classId) ==
    /\ tasks.edit.pc = "idle"
    /\ classId \in DOMAIN state.cards
    /\ ~state.cards[classId].detached
    /\ tasks' = [tasks EXCEPT
                   !.edit = [IdleTasks.edit EXCEPT
                               !.pc = "editing", !.classId = classId,
                               !.currentName = state.cards[classId].text]]
    /\ UNCHANGED <<modelManager, state, db, h, log, starts>>

\* The end of saveEdit, app.js:326-330: the input is replaced by a new span
\* whose text is newName || currentName, on the card if it is still there.
ReplaceInput(st, edit) ==
    IF edit.classId \in DOMAIN st.cards
    THEN [st EXCEPT !.cards[edit.classId] =
                       [text |-> IF edit.newName # NoName
                                 THEN edit.newName ELSE edit.currentName,
                        detached |-> TRUE]]
    ELSE st

\* The input loses focus: saveEdit, app.js:311-315, up to its await.
\* newName is the trimmed value of the input.
SaveEdit(newName) ==
    /\ tasks.edit.pc = "editing"
    /\ LET edit == [tasks.edit EXCEPT !.newName = newName]
       IN  IF newName # NoName /\ newName # edit.currentName
           THEN /\ tasks' = [tasks EXCEPT !.edit = [edit EXCEPT !.pc = "updateClassName"]]
                /\ UNCHANGED state
           ELSE /\ tasks' = [tasks EXCEPT !.edit = [edit EXCEPT !.pc = "idle"]]
                /\ state' = ReplaceInput(state, edit)
    /\ UNCHANGED <<modelManager, db, h, log, starts>>

\* updateClassName finds the record, puts the new name and resolves
\* (part_000:761-772); saveEdit renames the class in state.classes, rebuilds
\* the selector and replaces the input, app.js:315-330.
UpdateClassNameDone ==
    /\ tasks.edit.pc = "updateClassName"
    /\ tasks.edit.classId \in db.classes
    /\ LET id == tasks.edit.classId
           names == IF id \in DOMAIN state.names
                    THEN [state.names EXCEPT ![id] = tasks.edit.newName]
                    ELSE state.names
       IN  /\ db' = [db EXCEPT !.names[id] = tasks.edit.newName]
           /\ state' = ReplaceInput([state EXCEPT !.names = names, !.selector = names],
                                    tasks.edit)
    /\ tasks' = [tasks EXCEPT !.edit.pc = "idle"]
    /\ UNCHANGED <<modelManager, h, log, starts>>

\* updateClassName rejects: 'Class not found' when the record is gone, or a
\* failed request (part_000:773-777).  The catch block of saveEdit reports
\* it, app.js:320-323, and saveEdit goes on to replace the input.
UpdateClassNameFail ==
    /\ tasks.edit.pc = "updateClassName"
    /\ state' = ReplaceInput(state, tasks.edit)
    /\ tasks' = [tasks EXCEPT !.edit.pc = "idle", !.edit.failed = TRUE]
    /\ UNCHANGED <<modelManager, db, h, log, starts>>

NextClasses ==
    \/ \E t \in AddRequests : \E name \in Names \cup {NoName} : HandleAddClass(t, name)
    \/ \E t \in AddRequests : AddClassDone(t)
    \/ \E t \in AddRequests : AddClassFail(t)
    \/ \E classId \in AllClassIds : HandleEditClassName(classId)
    \/ \E newName \in Names \cup {NoName} : SaveEdit(newName)
    \/ UpdateClassNameDone
    \/ UpdateClassNameFail
    \/ \E id \in ClassIds : HandleDeleteClass(id)
    \/ DeleteSnapshot
    \/ DeleteImages
    \/ ClassDeleted

SpecClasses == Init /\ [][NextClasses]_vars

\* C21: a rename the store refuses changes nothing: the stored record, the
\* class in state.classes, the option of the class selector and the name on
\* the class card all keep the previous name.
C21_FailedRenameKeepsName ==
    LET id == tasks.edit.classId
        previous == tasks.edit.currentName
    IN  (tasks.edit.pc = "idle" /\ tasks.edit.failed) =>
            /\ id \in db.classes => db.names[id] = previous
            /\ id \in DOMAIN state.names =>
                  /\ state.names[id] = previous
                  /\ state.selector[id] = previous
            /\ id \in DOMAIN state.cards => state.cards[id].text = previous

\* C29: the names of the classes are unique ignoring case, in state.classes
\* and in the store.
C29_NamesUniqueIgnoringCase ==
    /\ \A c, d \in DOMAIN state.names :
          ToLowerCase(state.names[c]) = ToLowerCase(state.names[d]) => c = d
    /\ \A c, d \in db.classes :
          ToLowerCase(db.names[c]) = ToLowerCase(db.names[d]) => c = d

\* ------------------------------------- clear data, calls of the controller
\* A model saved on an earlier visit of the page, and its info record.
SavedModel == [by |-> LoadedBy, units |-> Cardinality(ClassIds)]
SavedInfo ==
    [saved |-> TRUE, classLabels |-> ClassLabelsOf([c \in ClassIds |-> 4])]

\* The page is loaded on a store with or without a saved model.
InitController ==
    \/ InitWith(NoModel, NoInfo)
    \/ InitWith(SavedModel, SavedInfo)

\* tf.loadLayersModel rejects, the saved model being gone: the catch block
\* of handleLoadModel, app.js:738-741.
ModelLoadFail ==
    /\ tasks.load.pc = "loadModel"
    /\ db.model = NoModel
    /\ tasks' = [tasks EXCEPT !.load.pc = "idle"]
    /\ UNCHANGED <<modelManager, state, db, h, log, starts>>

\* Click on Clear Data, confirmed, app.js:744-750: clearAll awaits the clear
\* request of its first store.
HandleClearData ==
    /\ tasks.clear.pc = "idle"
    /\ tasks' = [tasks EXCEPT !.clear.pc = "clearClasses"]
    /\ UNCHANGED <<modelManager, state, db, h, log, starts>>

\* A clear request of clearAll succeeds, part_000:937-951: the classes,
\* then the images, then the model info (the settings store is not part of
\* the state); after the last one deleteModel awaits tf.io.removeModel.
ClearStoreDone ==
    /\ tasks.clear.pc \in {"clearClasses", "clearImages", "clearModels"}
    /\ db' = CASE tasks.clear.pc = "clearClasses" ->
                    [db EXCEPT !.classes = {}, !.names = <<>>]
               [] tasks.clear.pc = "clearImages" ->
                    [db EXCEPT !.images = [c \in DOMAIN @ |-> 0]]
               [] tasks.clear.pc = "clearModels" ->
                    [db EXCEPT !.modelInfo = NoInfo]
    /\ tasks' = [tasks EXCEPT
                   !.clear.pc = CASE @ = "clearClasses" -> "clearImages"
                                  [] @ = "clearImages"  -> "clearModels"
                                  [] @ = "clearModels"  -> "deleteModel"]
    /\ UNCHANGED <<modelManager, state, h, log, starts>>

\* A clear request fails: the catch block of handleClearData, app.js:773-776.
ClearFail ==
    /\ tasks.clear.pc \in {"clearClasses", "clearImages", "clearModels"}
    /\ tasks' = [tasks EXCEPT !.clear.pc = "idle"]
    /\ UNCHANGED <<modelManager, state, db, h, log, starts>>

\* tf.io.removeModel settles and deleteModel drops the model and the class
\* labels, part_000:605-613; handleClearData empties the page, app.js:753-770.
ModelDeleted ==
    /\ tasks.clear.pc = "deleteModel"
    /\ db' = [db EXCEPT !.model = NoModel]
    /\ modelManager' = [modelManager EXCEPT !.model = NoModel, !.classLabels = <<>>]
    /\ state' = UpdateTrainingButtonState(
                    [state EXCEPT !.classes = <<>>, !.names = <<>>, !.cards = <<>>])
    /\ tasks' = [tasks EXCEPT
                   !.clear = [pc |-> "idle",
                              dropped |-> @.dropped \/ modelManager.model # NoModel]]
    /\ UNCHANGED <<h, log, starts>>

\* A call of modelManager.predict, part_000:546-562; call is the outcome of
\* the last call of a method of the controller.
PredictCall ==
    /\ tasks' = [tasks EXCEPT
                   !.call = [op |-> "predict", error |-> PredictError(modelManager),
                             dropped |-> tasks.clear.dropped]]
    /\ UNCHANGED <<modelManager, state, db, h, log, starts>>

\* A call of modelManager.saveModel, part_000:567-572: it throws, or awaits
\* this.model.save.
SaveModelCall ==
    /\ tasks.save.pc = "idle"
    /\ LET call == [op |-> "saveModel", error |-> SaveModelError(modelManager),
                    dropped |-> tasks.clear.dropped]
       IN  IF call.error # NoError
           THEN tasks' = [tasks EXCEPT !.call = call]
           ELSE tasks' = [tasks EXCEPT
                            !.call = call,
                            !.save = [pc      |-> "saveModel",
                                      model   |-> modelManager.model,
                                      trained |-> TrainedClasses,
                                      info    |-> NoInfo]]
    /\ UNCHANGED <<modelManager, state, db, h, log, starts>>

NextController ==
    \/ HandleLoadModel
    \/ ModelInfoRead
    \/ ModelLoaded
    \/ ModelLoadFail
    \/ HandleTestImage
    \/ TestImageLoaded
    \/ HandleSaveModel
    \/ ModelSaved
    \/ ModelInfoSaved
    \/ HandleClearData
    \/ ClearStoreDone
    \/ ClearFail
    \/ ModelDeleted
    \/ PredictCall
    \/ SaveModelCall

SpecController == InitController /\ [][NextController]_vars

\* C31: whenever the controller holds no model, predict is rejected with
\* 'Model not trained' and saveModel with 'No model to save', and the call
\* leaves the controller and the store as they were.
C31_NoModelRejected ==
    [][modelManager.model = NoModel =>
          /\ (tasks'.call # tasks.call /\ tasks'.call.op = "predict") =>
                /\ tasks'.call.error = "Model not trained"
                /\ modelManager' = modelManager
          /\ (tasks'.call # tasks.call /\ tasks'.call.op = "saveModel") =>
                /\ tasks'.call.error = "No model to save"
                /\ modelManager' = modelManager
                /\ db' = db
                /\ tasks'.save = tasks.save
          /\ (tasks.test.pc = "loading" /\ tasks'.test.pc = "idle") =>
                /\ tasks'.test.error = "Model not trained"
                /\ tasks'.test.result = tasks.test.result
                /\ modelManager' = modelManager]_vars

\* C31 witness: predict has been refused after clear-data dropped a model.
C31_Witness ==
    /\ tasks.call = [op |-> "predict", error |-> "Model not trained", dropped |-> TRUE]
    /\ modelManager.model = NoModel

====
